---------------------------- MODULE Spec2Model ----------------------------
(***************************************************************************)
(* Model of the TrainTicket graph viewer (graph-viewer/src/App.tsx and     *)
(* graph-viewer/src/api.ts): the selection and fetch controller held in    *)
(* the App component's state, the request that apply() issues and the      *)
(* continuation that runs when the request is settled, and the node colour *)
(* rule.                                                                   *)
(*                                                                         *)
(* Representation.  A JavaScript Set iterates in insertion order, so the   *)
(* selection is a duplicate-free sequence.  A string that the code builds  *)
(* by concatenation (the request path) is the sequence of its pieces.  A   *)
(* value that may be null is NULL (the empty sequence) or Some(v).        *)
(***************************************************************************)
EXTENDS Naturals, Sequences, FiniteSets, TLC

VARIABLES
    selected,     \* App state `selected`: Set<FilterId>, in insertion order
    graph,        \* App state `graph`: {nodes, links}
    loading,      \* App state `loading`
    error,        \* App state `error`: string | null
    inflight,     \* the apply() invocations suspended at `await fetchIntersection`
    nApply,       \* history: number of apply() invocations started
    nFetch,       \* history: number of fetch() calls made
    nSettled,     \* history: number of apply() invocations that ran to their end
    outOfOrder,   \* history: a request was settled before one issued earlier
    overlapped,   \* history: some apply() started while a request was in flight
    last,         \* history: the operation that produced the current state
    history       \* history: the filters toggled, in order

vars == <<selected, graph, loading, error, inflight, nApply, nFetch,
          nSettled, outOfOrder, overlapped, last, history>>

-----------------------------------------------------------------------------
(* Bounds of the model *)

MaxApplies == 2

MaxToggles == 3

-----------------------------------------------------------------------------
(* Values *)

NULL == <<>>

Some(v) == <<v>>

FilterId == {"public", "sink", "vuln"}

FILTERS == <<"public", "sink", "vuln">>

FILTER_COLORS == [public |-> "#22c55e", sink |-> "#3b82f6", vuln |-> "#ef4444"]

API_BASE == <<"/api">>

EmptyGraph == [nodes |-> <<>>, links |-> <<>>]

(* The characters of each filter identifier, as encodeURIComponent reads them. *)
Chars(s) ==
    CASE s = "public" -> <<"p", "u", "b", "l", "i", "c">>
      [] s = "sink"   -> <<"s", "i", "n", "k">>
      [] s = "vuln"   -> <<"v", "u", "l", "n">>

(* Characters encodeURIComponent leaves as they are (those that occur in   *)
(* identifiers here), and the escapes of the ones it does not.             *)
Unreserved ==
    {"a", "b", "c", "d", "e", "f", "g", "h", "i", "j", "k", "l", "m",
     "n", "o", "p", "q", "r", "s", "t", "u", "v", "w", "x", "y", "z",
     "-", "_", ".", "!", "~", "*", "(", ")"}

Escape(c) ==
    CASE c = " " -> "%20"
      [] c = "&" -> "%26"
      [] c = "=" -> "%3D"
      [] c = "?" -> "%3F"
      [] c = "/" -> "%2F"
      [] OTHER   -> "%"

RECURSIVE encodeChars(_)
encodeChars(cs) ==
    IF cs = <<>> THEN <<>>
    ELSE <<(IF Head(cs) \in Unreserved THEN Head(cs) ELSE Escape(Head(cs)))>>
         \o encodeChars(Tail(cs))

encodeURIComponent(s) == encodeChars(Chars(s))

RECURSIVE join(_, _)
join(parts, sep) ==
    IF parts = <<>> THEN <<>>
    ELSE IF Len(parts) = 1 THEN Head(parts)
    ELSE Head(parts) \o sep \o join(Tail(parts), sep)

-----------------------------------------------------------------------------
(* api.ts *)

(* fetchIntersection builds the path: the query string, or nothing.        *)
fetchIntersectionPath(options) ==
    LET params ==
            IF Len(options) # 0
            THEN <<"?">> \o join([i \in 1..Len(options) |->
                                    <<"options=">> \o encodeURIComponent(options[i])],
                                 <<"&">>)
            ELSE <<>>
    IN  API_BASE \o <<"/intersection">> \o params

(* What the transport does with a request.  fetch() rejects (netError), or *)
(* resolves to a response with a status (ok is status in 200..299) and a   *)
(* body: text, which is JSON (valid, with value json) or not.              *)
Bodies ==
    { [options |-> <<>>, nodes |-> <<"a", "b">>, edges |-> <<<<"a", "b">>>>],
      [options |-> <<>>] }

NoJson == [options |-> <<>>]

Responses ==
    { [netError |-> TRUE, message |-> "Failed to fetch", ok |-> FALSE,
       text |-> "", valid |-> FALSE, json |-> NoJson] }
    \cup { [netError |-> FALSE, message |-> "", ok |-> FALSE,
            text |-> t, valid |-> FALSE, json |-> NoJson] : t \in {"boom"} }
    \cup { [netError |-> FALSE, message |-> "", ok |-> TRUE,
            text |-> "<html>", valid |-> FALSE, json |-> NoJson] }
    \cup { [netError |-> FALSE, message |-> "", ok |-> TRUE,
            text |-> "json", valid |-> TRUE, json |-> b] : b \in Bodies }

Error(m) == [isError |-> TRUE, message |-> m, string |-> "Error"]

Threw(e) == [threw |-> TRUE, e |-> e, value |-> NoJson]

Returned(v) == [threw |-> FALSE, e |-> Error(""), value |-> v]

(* fetchJson after the transport answered resp: the value it returns or    *)
(* the exception it throws.                                                *)
fetchJson(resp) ==
    IF resp.netError THEN Threw(Error(resp.message))
    ELSE IF ~resp.ok THEN Threw(Error(resp.text))
    ELSE IF ~resp.valid THEN Threw(Error("Unexpected token"))
    ELSE Returned(resp.json)

-----------------------------------------------------------------------------
(* App.tsx *)

SeqToSet(s) == {s[i] : i \in 1..Len(s)}

has(s, id) == id \in SeqToSet(s)

RECURSIVE delete(_, _)
delete(s, id) ==
    IF s = <<>> THEN <<>>
    ELSE IF Head(s) = id THEN Tail(s)
    ELSE <<Head(s)>> \o delete(Tail(s), id)

add(s, id) == IF has(s, id) THEN s ELSE Append(s, id)

(* The updater toggle passes to setSelected. *)
\* Variant: a toggle that never removes a filter.
toggleAddsOnly(prev, id) == add(prev, id)

toggle(prev, id) ==
    IF has(prev, id) THEN delete(prev, id) ELSE add(prev, id)

(* nodeColor *)
\* Variant: the colour of the first filter for any non-empty group.
nodeColorByFirst(node) ==
    LET groups == node.group
    IN  IF Len(groups) = 0 THEN "#94a3b8"
        ELSE FILTER_COLORS[groups[1]]

nodeColor(node) ==
    LET groups == node.group
    IN  IF Len(groups) = 0 THEN "#94a3b8"
        ELSE IF Len(groups) = 1 THEN FILTER_COLORS[groups[1]]
        ELSE "#a855f7"

(* r.nodes ?? [] and r.edges ?? [] *)
nodesOf(r) == IF "nodes" \in DOMAIN r THEN r.nodes ELSE <<>>

edgesOf(r) == IF "edges" \in DOMAIN r THEN r.edges ELSE <<>>

(* The graph apply() builds from the response r of a request made with     *)
(* options.                                                                *)
toDisplayGraph(r, options) ==
    [nodes |-> [i \in 1..Len(nodesOf(r)) |->
                  [id |-> nodesOf(r)[i], group |-> options]],
     links |-> [i \in 1..Len(edgesOf(r)) |->
                  [source |-> edgesOf(r)[i][1], target |-> edgesOf(r)[i][2]]]]

(* catch: e instanceof Error ? e.message : String(e) *)
errorMessage(e) == IF e.isError THEN e.message ELSE e.string

NoRequest == [id |-> 0, options |-> <<>>, path |-> <<>>]

NoResponse ==
    [netError |-> FALSE, message |-> "", ok |-> FALSE,
     text |-> "", valid |-> FALSE, json |-> NoJson]

Init ==
    /\ selected = <<>>
    /\ graph = EmptyGraph
    /\ loading = FALSE
    /\ error = NULL
    /\ inflight = {}
    /\ nApply = 0
    /\ nFetch = 0
    /\ nSettled = 0
    /\ outOfOrder = FALSE
    /\ overlapped = FALSE
    /\ last = [kind |-> "init", req |-> NoRequest, resp |-> NoResponse]
    /\ history = <<>>

-----------------------------------------------------------------------------
(* apply(), up to its await: setLoading(true), setError(null), the snapshot *)
(* Array.from(selected) and the call of fetchIntersection, which calls     *)
(* fetch() once before it suspends.                                        *)

fetch(q) ==
    /\ inflight' = inflight \cup {q}
    /\ nFetch' = nFetch + 1

apply ==
    /\ nApply < MaxApplies
    /\ LET options == selected
           q == [id |-> nApply + 1, options |-> options,
                 path |-> fetchIntersectionPath(options)]
       IN  /\ loading' = TRUE
           /\ error' = NULL
           /\ fetch(q)
           /\ last' = [kind |-> "apply", req |-> q, resp |-> NoResponse]
    /\ nApply' = nApply + 1
    /\ overlapped' = (overlapped \/ inflight # {})
    /\ UNCHANGED <<selected, graph, nSettled, outOfOrder, history>>

(* The try block after the await, for the invocation q whose request       *)
(* returned r.                                                             *)
\* Variant: the response of any but the latest invocation is discarded.
tryBranchIfLatest(q, r) ==
    /\ graph' = IF q.id = nApply THEN toDisplayGraph(r, q.options) ELSE graph
    /\ UNCHANGED <<error, nFetch>>
    /\ inflight' = inflight \ {q}

\* Variant: nodes tagged with the selection at the time the response arrives.
tryBranchCurrentSelection(q, r) ==
    /\ graph' = toDisplayGraph(r, selected)
    /\ UNCHANGED <<error, nFetch>>
    /\ inflight' = inflight \ {q}

tryBranch(q, r) ==
    /\ graph' = toDisplayGraph(r, q.options)
    /\ UNCHANGED <<error, nFetch>>
    /\ inflight' = inflight \ {q}

(* The catch block, for the invocation q whose request threw e.            *)
\* Variant: the graph displayed before is kept on failure.
catchBranchStale(q, e) ==
    /\ error' = Some(errorMessage(e))
    /\ UNCHANGED <<graph, nFetch>>
    /\ inflight' = inflight \ {q}

\* Variant: the request is issued again on failure.
catchBranchRetry(q, e) ==
    /\ error' = Some(errorMessage(e))
    /\ graph' = EmptyGraph
    /\ nFetch' = nFetch + 1
    /\ inflight' = inflight

catchBranch(q, e) ==
    /\ error' = Some(errorMessage(e))
    /\ graph' = EmptyGraph
    /\ UNCHANGED nFetch
    /\ inflight' = inflight \ {q}

(* apply() from its await on, when the transport answers the request of    *)
(* invocation q with resp: try or catch, then finally.                     *)
\* Variant: setLoading(false) on success only.
applyResumeNoFinally(q, resp) ==
    /\ q \in inflight
    /\ LET res == fetchJson(resp)
       IN  IF res.threw
           THEN catchBranch(q, res.e) /\ UNCHANGED loading
           ELSE tryBranch(q, res.value) /\ loading' = FALSE
    /\ nSettled' = nSettled + 1
    /\ outOfOrder' = (outOfOrder \/ \E p \in inflight : p.id < q.id)
    /\ last' = [kind |-> "settle", req |-> q, resp |-> resp]
    /\ UNCHANGED <<selected, nApply, overlapped, history>>

applyResume(q, resp) ==
    /\ q \in inflight
    /\ LET res == fetchJson(resp)
       IN  IF res.threw
           THEN catchBranch(q, res.e)
           ELSE tryBranch(q, res.value)
    /\ loading' = FALSE
    /\ nSettled' = nSettled + 1
    /\ outOfOrder' = (outOfOrder \/ \E p \in inflight : p.id < q.id)
    /\ last' = [kind |-> "settle", req |-> q, resp |-> resp]
    /\ UNCHANGED <<selected, nApply, overlapped, history>>

(* The checkbox handler toggle(id). *)
\* Variant: a toggle that also clears the error.
ToggleAndClearError(id) ==
    /\ Len(history) < MaxToggles
    /\ selected' = toggle(selected, id)
    /\ error' = NULL
    /\ history' = Append(history, id)
    /\ last' = [kind |-> "toggle", req |-> NoRequest, resp |-> NoResponse]
    /\ UNCHANGED <<graph, loading, inflight, nApply, nFetch,
                   nSettled, outOfOrder, overlapped>>

Toggle(id) ==
    /\ Len(history) < MaxToggles
    /\ selected' = toggle(selected, id)
    /\ history' = Append(history, id)
    /\ last' = [kind |-> "toggle", req |-> NoRequest, resp |-> NoResponse]
    /\ UNCHANGED <<graph, loading, error, inflight, nApply, nFetch,
                   nSettled, outOfOrder, overlapped>>

(* The Apply button: disabled={loading}. *)
applyButtonDisabled == loading

ClickApply == ~applyButtonDisabled /\ apply

Settle == \E q \in inflight : \E resp \in Responses : applyResume(q, resp)

(* One checkbox per entry of FILTERS, each calling toggle(id). *)
ToggleAny == \E i \in 1..Len(FILTERS) : Toggle(FILTERS[i])

Next ==
    \/ apply
    \/ Settle
    \/ ToggleAny

(* The handlers as the component defines them: apply() has no guard of its *)
(* own, so an invocation may start while another is suspended.             *)
Spec == Init /\ [][Next]_vars

(* The transport settles every request it was given. *)
LiveSpec == Spec /\ WF_vars(Settle)

NextUI ==
    \/ ClickApply
    \/ Settle
    \/ ToggleAny

(* The handlers reached only through the rendered controls. *)
SpecUI == Init /\ [][NextUI]_vars


-----------------------------------------------------------------------------
(* Properties *)

(* What the server reads from a request path: the pieces after "?", split  *)
(* at "&", each a key and a percent-decoded value.                         *)
RECURSIVE after(_, _)
after(path, t) ==
    IF path = <<>> THEN <<>>
    ELSE IF Head(path) = t THEN Tail(path)
    ELSE after(Tail(path), t)

RECURSIVE splitOn(_, _, _)
splitOn(ts, sep, cur) ==
    IF ts = <<>> THEN <<cur>>
    ELSE IF Head(ts) = sep THEN <<cur>> \o splitOn(Tail(ts), sep, <<>>)
    ELSE splitOn(Tail(ts), sep, Append(cur, Head(ts)))

Unescape(t) ==
    CASE t = "%20" -> " "
      [] t = "%26" -> "&"
      [] t = "%3D" -> "="
      [] t = "%3F" -> "?"
      [] t = "%2F" -> "/"
      [] OTHER     -> t

HasQuery(path) == "?" \in SeqToSet(path)

QueryParams(path) ==
    IF ~HasQuery(path) THEN <<>>
    ELSE LET ps == splitOn(after(path, "?"), "&", <<>>)
         IN  [i \in 1..Len(ps) |->
                [key   |-> Head(ps[i]),
                 value |-> [j \in 1..(Len(ps[i]) - 1) |-> Unescape(ps[i][j + 1])]]]

(* The request carries exactly the filters of snapshot, one `options`      *)
(* parameter each, and no query string when snapshot is empty.             *)
CarriesSnapshot(path, snapshot) ==
    /\ HasQuery(path) <=> snapshot # <<>>
    /\ Len(QueryParams(path)) = Len(snapshot)
    /\ \A i \in 1..Len(snapshot) :
          /\ QueryParams(path)[i].key = "options="
          /\ QueryParams(path)[i].value = Chars(snapshot[i])
    /\ Cardinality(SeqToSet(snapshot)) = Len(snapshot)

Failed(resp) == resp.netError \/ ~resp.ok \/ ~resp.valid

Succeeded(resp) == ~Failed(resp)

(* The adapter output for a response body and the filters requested. *)
ExpectedDisplay(json, options) ==
    LET ns == IF "nodes" \in DOMAIN json THEN json.nodes ELSE <<>>
        es == IF "edges" \in DOMAIN json THEN json.edges ELSE <<>>
    IN  [nodes |-> [i \in 1..Len(ns) |-> [id |-> ns[i], group |-> options]],
         links |-> [i \in 1..Len(es) |-> [source |-> es[i][1], target |-> es[i][2]]]]

DeterminedGraph(req, resp) ==
    IF Succeeded(resp) THEN ExpectedDisplay(resp.json, req.options)
    ELSE [nodes |-> <<>>, links |-> <<>>]

(* C1: when apply() invocations overlapped, no request is dropped (every   *)
(* invocation started is in flight or ran to its end), and once none is in *)
(* flight the displayed graph is the one determined by the request settled *)
(* last: the adapter output of its response, or the empty graph if it      *)
(* failed, whatever the order of issue.                                    *)
C1_LastResolvedWins ==
    /\ nSettled + Cardinality(inflight) = nApply
    /\ (overlapped /\ inflight = {} /\ last.kind = "settle")
          => graph = DeterminedGraph(last.req, last.resp)

(* The request issued first is settled last, after an overlap, and its     *)
(* graph is the one displayed.                                             *)
C1_Witness ==
    /\ overlapped /\ outOfOrder /\ inflight = {}
    /\ last.kind = "settle" /\ last.req.id = 1
    /\ Succeeded(last.resp) /\ graph.nodes # <<>>

(* C2: right after an apply() whose request failed, error is the failure's *)
(* message (the body text for a non-2xx status, the transport's message    *)
(* for a transport error) and the displayed graph is empty.                *)
C2_FailureSetsErrorAndClears ==
    (last.kind = "settle" /\ Failed(last.resp))
      => /\ graph = [nodes |-> <<>>, links |-> <<>>]
         /\ error # NULL
         /\ last.resp.netError => error = Some(last.resp.message)
         /\ (~last.resp.netError /\ ~last.resp.ok) => error = Some(last.resp.text)

C2_Witness ==
    /\ last.kind = "settle" /\ nSettled = 2
    /\ ~last.resp.netError /\ ~last.resp.ok /\ last.resp.text = "boom"
    /\ error = Some("boom") /\ graph = EmptyGraph

(* C3 as stated: right after an apply() whose request succeeded, error is  *)
(* null and the displayed graph is the one built from that response, also  *)
(* when the invocation overlapped an earlier one that failed.              *)
C3_SuccessClearsError ==
    (last.kind = "settle" /\ Succeeded(last.resp))
      => /\ error = NULL
         /\ graph = ExpectedDisplay(last.resp.json, last.req.options)

(* C4 as stated: whenever a request is in flight, loading is true.         *)
C4_LoadingWhileInFlight == inflight # {} => loading

(* C5: the number of fetch() calls equals the number of apply() *)
(* invocations started; a failure issues no further request.               *)
C5_OneRequestPerApply == nFetch = nApply

C5_Witness ==
    /\ nApply = 2 /\ nFetch = 2 /\ nSettled = 2
    /\ last.kind = "settle" /\ Failed(last.resp)

(* C6: apply() leaves loading true, and if every request is eventually     *)
(* settled then loading true leads to loading false, whatever the outcome. *)
C6_LoadingCycleEnds ==
    /\ [](last.kind = "apply" => loading)
    /\ (loading ~> ~loading)

C6_Witness ==
    /\ last.kind = "settle" /\ Failed(last.resp) /\ ~loading /\ inflight = {}

(* C7: from the empty selection, after any sequence of toggles the         *)
(* selection holds exactly the filters toggled an odd number of times,     *)
(* each once; toggling a filter twice in succession restores the           *)
(* selection; toggling the elements of a subset once each, in any order,   *)
(* gives that subset.                                                      *)
TimesToggled(f) == Cardinality({i \in 1..Len(history) : history[i] = f})

C7_ToggleSetSemantics ==
    /\ SeqToSet(selected) = {f \in FilterId : TimesToggled(f) % 2 = 1}
    /\ Cardinality(SeqToSet(selected)) = Len(selected)
    /\ \A f \in FilterId :
          SeqToSet(toggle(toggle(selected, f), f)) = SeqToSet(selected)
    /\ (\A f \in FilterId : TimesToggled(f) <= 1)
          => SeqToSet(selected) = SeqToSet(history)

C7_Witness ==
    /\ history = <<"public", "sink", "public">>
    /\ selected = <<"sink">>

(* C8: apply() works on the selection as it is when it is invoked: the     *)
(* request it issues carries one `options` parameter per filter of that    *)
(* snapshot (no query string for the empty one), and every node displayed  *)
(* from its response is tagged with the snapshot, even if the selection    *)
(* changed in between.                                                     *)
C8_SnapshotAtInvocation ==
    /\ \A q \in inflight : CarriesSnapshot(q.path, q.options)
    /\ last.kind = "apply"
          => /\ last.req \in inflight
             /\ last.req.options = selected
    /\ (last.kind = "settle" /\ Succeeded(last.resp))
          => /\ CarriesSnapshot(last.req.path, last.req.options)
             /\ \A i \in 1..Len(graph.nodes) :
                   graph.nodes[i].group = last.req.options

C8_Witness ==
    /\ last.kind = "settle" /\ Succeeded(last.resp)
    /\ Len(last.req.options) = 2
    /\ SeqToSet(selected) # SeqToSet(last.req.options)
    /\ graph.nodes # <<>>
    /\ graph.nodes[1].group = last.req.options

(* C9: the colour of a node is the neutral colour for no filter, the       *)
(* filter's own colour for one filter, and the multi-membership colour for *)
(* two or more, whatever the order of the filters; the five colours are    *)
(* pairwise distinct.                                                      *)
ColorRule(S) ==
    IF S = {} THEN "#94a3b8"
    ELSE IF S = {"public"} THEN "#22c55e"
    ELSE IF S = {"sink"} THEN "#3b82f6"
    ELSE IF S = {"vuln"} THEN "#ef4444"
    ELSE "#a855f7"

Orderings ==
    {s \in UNION {[1..n -> FilterId] : n \in 0..3} :
        Cardinality(SeqToSet(s)) = Len(s)}

C9_ColorRule ==
    /\ \A i \in 1..Len(graph.nodes) :
          nodeColor(graph.nodes[i]) = ColorRule(SeqToSet(graph.nodes[i].group))
    /\ \A g \in Orderings :
          nodeColor([id |-> "a", group |-> g]) = ColorRule(SeqToSet(g))
    /\ Cardinality({ColorRule(S) : S \in SUBSET FilterId}) = 5
    /\ Cardinality({S \in SUBSET FilterId : ColorRule(S) = "#a855f7"}) = 4

C9_Witness ==
    /\ graph.nodes # <<>>
    /\ Len(graph.nodes[1].group) = 2
    /\ nodeColor(graph.nodes[1]) = "#a855f7"

(* C10: a toggle changes nothing but the selection and issues no request;  *)
(* apply(), when invoked and when its request is settled, leaves the       *)
(* selection as it is.                                                     *)
C10_DisjointState ==
    [][ /\ (selected' # selected \/ last'.kind = "toggle")
             => /\ graph' = graph
                /\ loading' = loading
                /\ error' = error
                /\ inflight' = inflight
                /\ nFetch' = nFetch
        /\ (last'.kind \in {"apply", "settle"}) => selected' = selected ]_vars

C10_Witness ==
    /\ last.kind = "toggle"
    /\ error # NULL
    /\ inflight # {}
    /\ selected # <<>>

=============================================================================
